---- MODULE Spec2Model ----
(***************************************************************************)
(* Shadow caster: a sparse occupancy grid of wall tiles, the extraction of *)
(* merged boundary edges from it (computeEdges), the ray casting towards   *)
(* the edge endpoints (getRaysToEdges) and the pointer handlers that drive *)
(* them.  Modelled from src/src/canvas.ts and from the variant of the same *)
(* file that wraps computeEdges in a transaction (src/unnamed/part_000).   *)
(***************************************************************************)
EXTENDS Integers, Sequences, FiniteSets, TLC

VARIABLES
    cells,          \* createCells: the Map x -> (Map y -> Cell), as a function on the occupied coordinates
    edges,          \* createEdges: the Map id -> Edge
    edgeId,         \* createEdges: the next id
    rays,           \* setupCanvas: rays
    lightSource,    \* setupCanvas: lightSource, NoLight for null
    isCreating,     \* setupCanvas: isCreating
    isRemoving,     \* setupCanvas: isRemoving
    isTransaction,  \* transactionable: isTransaction
    wasCalled,      \* transactionable: wasCalled
    fault,          \* a TypeError was thrown (getEdge(id)! was undefined)
    pc,             \* the operation that ran last, or the position inside getRaysToEdges
    clipRay,        \* getRaysToEdges, clipping loop: index of the ray being clipped
    clipEdge,       \* getRaysToEdges, clipping loop: index of the next edge
    dropped,        \* getRaysToEdges run step by step: the number of rays that rays.length = 0 discarded
    edits,          \* number of setCell calls made so far (bounded by MaxEdits)
    recomputes,     \* number of computeEdges runs of the last operation
    txSets,         \* number of setCell calls since the transaction was opened
    args,           \* a function called on its own: its arguments
    result          \* lineIntersect called on its own: what it returned

vars == <<cells, edges, edgeId, rays, lightSource, isCreating, isRemoving,
          isTransaction, wasCalled, fault, pc, clipRay, clipEdge, dropped,
          edits, recomputes, txSets, args, result>>

----------------------------------------------------------------------------
(* Program constants and the bounds of the model.                          *)

TILE_SIZE == 16

\* The scan extent, 20 x 20 in the source, scaled down.
TILE_X_COUNT == 3

TILE_Y_COUNT == 3

NORTH == 0

EAST == 1

SOUTH == 2

WEST == 3

\* At most this many setCell calls in one behaviour.
MaxEdits == 3

\* The pointer stays on the tiles with x and y up to this.
MaxPointer == 1

Sides == {NORTH, EAST, SOUTH, WEST}

Xs == 0 .. (TILE_X_COUNT - 1)

Ys == 0 .. (TILE_Y_COUNT - 1)

\* The tiles a pointer over the canvas can be on.
Coords == Xs \X Ys

NoLight == <<>>

EmptyMap == [k \in {} |-> 0]

----------------------------------------------------------------------------
(* createCells                                                             *)

createCell(x, y) ==
    [x |-> x, y |-> y,
     edgeIds |-> [s \in Sides |-> 0],
     existEdges |-> [s \in Sides |-> FALSE]]

hasCell(cs, x, y) == <<x, y>> \in DOMAIN cs

\* getCell is used only under hasCell (the code tests the result for undefined).
getCell(cs, x, y) == cs[<<x, y>>]

setCell(cs, x, y, value) ==
    IF value
    THEN [c \in (DOMAIN cs) \cup {<<x, y>>} |->
            IF c = <<x, y>> THEN createCell(x, y) ELSE cs[c]]
    ELSE [c \in (DOMAIN cs) \ {<<x, y>>} |-> cs[c]]

getAllCells(cs) == {cs[c] : c \in DOMAIN cs}

----------------------------------------------------------------------------
(* createEdges.  A store is the record [edges, edgeId]; the operators of   *)
(* computeEdges thread a record [cells, edges, edgeId, fault].             *)

getEdgeDefined(st, id) == id \in DOMAIN st.edges

\* clearEdges that discards nothing.
clearEdges_Keep(st) == st

clearEdges(st) == [st EXCEPT !.edges = EmptyMap, !.edgeId = 1]

\* addEdge: the id given is st.edgeId (getNextEdgeId returns edgeId++).
addEdge(st, edge) ==
    [st EXCEPT !.edges = [i \in (DOMAIN st.edges) \cup {st.edgeId} |->
                             IF i = st.edgeId THEN edge ELSE st.edges[i]],
               !.edgeId = st.edgeId + 1]

\* getAllEdges: the values in insertion order, which is the order of the ids.
RECURSIVE SeqOfIds(_)
SeqOfIds(ids) ==
    IF ids = {} THEN <<>>
    ELSE LET m == CHOOSE i \in ids : \A j \in ids : i <= j
         IN <<m>> \o SeqOfIds(ids \ {m})

getAllEdges(es) == [i \in 1 .. Cardinality(DOMAIN es) |-> es[SeqOfIds(DOMAIN es)[i]]]

----------------------------------------------------------------------------
(* computeEdges                                                            *)

\* The cell across a side.
AcrossX(x, side) == IF side = EAST THEN x + 1 ELSE IF side = WEST THEN x - 1 ELSE x

\* The south test looking at the cell itself.
AcrossY_NoSouth(y, side) == IF side = NORTH THEN y - 1 ELSE y

AcrossY(y, side) == IF side = NORTH THEN y - 1 ELSE IF side = SOUTH THEN y + 1 ELSE y

\* The neighbour on the right, which the scan has not reached yet.
ExtX_Right(x, side) == IF side \in {NORTH, SOUTH} THEN x + 1 ELSE x

\* The neighbour whose edge is extended: the left one for north and south,
\* the top one for east and west.
ExtX(x, side) == IF side \in {NORTH, SOUTH} THEN x - 1 ELSE x

ExtY(y, side) == IF side \in {NORTH, SOUTH} THEN y ELSE y - 1

\* The unit edge of a side.
UnitEdge(x, y, side) ==
    IF side = NORTH THEN [sx |-> x, sy |-> y, ex |-> x + 1, ey |-> y]
    ELSE IF side = EAST THEN [sx |-> x + 1, sy |-> y, ex |-> x + 1, ey |-> y + 1]
    ELSE IF side = SOUTH THEN [sx |-> x, sy |-> y + 1, ex |-> x + 1, ey |-> y + 1]
    ELSE [sx |-> x, sy |-> y, ex |-> x, ey |-> y + 1]

\* An extension that stops one short.
ExtendEdge_Short(edge, x, y, side) ==
    IF side \in {NORTH, SOUTH} THEN [edge EXCEPT !.ex = x]
    ELSE [edge EXCEPT !.ey = y]

\* edge.ex = x + 1 for north and south, edge.ey = y + 1 for east and west.
ExtendEdge(edge, x, y, side) ==
    IF side \in {NORTH, SOUTH} THEN [edge EXCEPT !.ex = x + 1]
    ELSE [edge EXCEPT !.ey = y + 1]

SetSide(st, x, y, side, exist, id) ==
    [st EXCEPT !.cells[<<x, y>>].existEdges[side] = exist,
               !.cells[<<x, y>>].edgeIds[side] = id]

\* A check that never reuses the neighbour's edge.
CheckSide_NoMerge(st, x, y, side) ==
    IF hasCell(st.cells, AcrossX(x, side), AcrossY(y, side))
    THEN SetSide(st, x, y, side, FALSE, 0)
    ELSE SetSide(addEdge(st, UnitEdge(x, y, side)), x, y, side, TRUE, st.edgeId)

\* One of the four "check ... edge" blocks of computeEdges, for cell (x, y).
CheckSide(st, x, y, side) ==
    IF st.fault THEN st
    ELSE IF hasCell(st.cells, AcrossX(x, side), AcrossY(y, side))
    THEN SetSide(st, x, y, side, FALSE, 0)
    ELSE IF /\ hasCell(st.cells, ExtX(x, side), ExtY(y, side))
            /\ getCell(st.cells, ExtX(x, side), ExtY(y, side)).existEdges[side]
    THEN LET id == getCell(st.cells, ExtX(x, side), ExtY(y, side)).edgeIds[side]
         IN IF getEdgeDefined(st, id)
            THEN [SetSide(st, x, y, side, TRUE, id)
                    EXCEPT !.edges[id] = ExtendEdge(st.edges[id], x, y, side)]
            \* getEdge(edgeId)! is undefined: edge.ex = ... throws, after
            \* existEdges[side] = true was stored.
            ELSE [st EXCEPT !.cells[<<x, y>>].existEdges[side] = TRUE,
                            !.fault = TRUE]
    ELSE SetSide(addEdge(st, UnitEdge(x, y, side)), x, y, side, TRUE, st.edgeId)

\* The body of the two loops for one (x, y).
CheckCell(st, x, y) ==
    IF ~hasCell(st.cells, x, y) THEN st
    ELSE CheckSide(CheckSide(CheckSide(CheckSide(st, x, y, NORTH),
                                       x, y, EAST), x, y, SOUTH), x, y, WEST)

\* for x ascending (outer), for y ascending (inner): position k is
\* x = k \div TILE_Y_COUNT, y = k % TILE_Y_COUNT.  A throw ends the loops.
RECURSIVE Scan(_, _)
Scan(st, k) ==
    IF k >= TILE_X_COUNT * TILE_Y_COUNT THEN st
    ELSE LET done == CheckCell(st, k \div TILE_Y_COUNT, k % TILE_Y_COUNT)
         IN IF done.fault THEN done ELSE Scan(done, k + 1)

computeEdges(st) == Scan(clearEdges(st), 0)

\* The record computeEdges works on, from the variables.
Store == [cells |-> cells, edges |-> edges, edgeId |-> edgeId, fault |-> fault]

----------------------------------------------------------------------------
(* Exact fractions n/d, d > 0, in lowest terms, for the quantities the     *)
(* code holds in floating point.                                           *)

Abs(a) == IF a < 0 THEN -a ELSE a

RECURSIVE Gcd(_, _)
Gcd(a, b) == IF b = 0 THEN a ELSE Gcd(b, a % b)

Rat(n, d) ==
    LET g == Gcd(Abs(n), Abs(d))
    IN IF d < 0 THEN <<(-n) \div g, (-d) \div g>> ELSE <<n \div g, d \div g>>

RatLess(a, b) == a[1] * b[2] < b[1] * a[2]

RatLeq(a, b) == a[1] * b[2] <= b[1] * a[2]

RatOne == <<1, 1>>

NoPoint == <<>>

----------------------------------------------------------------------------
(* lineIntersect                                                           *)

\* a / b on numbers: 0 / 0 is NaN, a / 0 is an infinity (of the sign of a
\* and of the zero), anything else the fraction.
fdiv(n, d) ==
    IF d # 0 THEN [kind |-> "finite", val |-> Rat(n, d)]
    ELSE IF n = 0 THEN [kind |-> "NaN", val |-> <<0, 1>>]
    ELSE [kind |-> "Infinity", val |-> <<0, 1>>]

\* v >= 0 && v <= 1 with both ends left out.
inUnit_Open(v) ==
    v.kind = "finite" /\ RatLess(<<0, 1>>, v.val) /\ RatLess(v.val, RatOne)

\* v >= 0 && v <= 1: every comparison with NaN is false, and an infinity
\* of either sign fails one of the two.
inUnit(v) ==
    v.kind = "finite" /\ RatLeq(<<0, 1>>, v.val) /\ RatLeq(v.val, RatOne)

\* Returns NoPoint for null, else { x, y } and the parameter t they were
\* computed from.
lineIntersect(x0, y0, x1, y1, x2, y2, x3, y3) ==
    LET sx1 == x1 - x0
        sy1 == y1 - y0
        sx2 == x3 - x2
        sy2 == y3 - y2
        s == fdiv((-sy1) * (x0 - x2) + sx1 * (y0 - y2), (-sx2) * sy1 + sx1 * sy2)
        t == fdiv(sx2 * (y0 - y2) - sy2 * (x0 - x2), (-sx2) * sy1 + sx1 * sy2)
    IN IF inUnit(s) /\ inUnit(t)
       THEN [t |-> t.val,
             x |-> Rat(x0 * t.val[2] + t.val[1] * sx1, t.val[2]),
             y |-> Rat(y0 * t.val[2] + t.val[1] * sy1, t.val[2])]
       ELSE NoPoint

----------------------------------------------------------------------------
(* getRaysToEdges.  A ray is [sx, sy] (the light), [fx, fy] (the far-field *)
(* point it was cast to), t (the fraction of the segment light -> far      *)
(* point that the ray spans: its end (ex, ey) is light + t * (far - light),*)
(* t = 1 as cast), and its angle, kept as the endpoint (bx, by) it was     *)
(* aimed at and k in {-1, 0, 1}: angle = atan2(by - sy, bx - sx) + k * eps.*)

\* 1 / 0.0001, the angular offset of the two side rays.
EpsInv == 10000

\* atan2(0, 0) is 0: the direction of the x axis.
DirX(lx, ly, x, y) == IF x = lx /\ y = ly THEN 1 ELSE x - lx

DirY(lx, ly, x, y) == y - ly

\* The ray at angle atan2(y - ly, x - lx) + k * eps.  cos and sin are not
\* rational: the far-field point is taken on the same half-line, the
\* direction (dx, dy) turned by the angle of tangent k / EpsInv, at a distance
\* of at least EpsInv, which is beyond TILE_X_COUNT * TILE_SIZE * 1.5.
castRay(lx, ly, x, y, k) ==
    LET dx == DirX(lx, ly, x, y)
        dy == DirY(lx, ly, x, y)
    IN [sx |-> lx, sy |-> ly,
        fx |-> lx + EpsInv * dx - k * dy,
        fy |-> ly + EpsInv * dy + k * dx,
        t |-> RatOne,
        bx |-> x, by |-> y, k |-> k]

\* ray.ex and ray.ey.
rayEx(ray) == Rat(ray.sx * ray.t[2] + ray.t[1] * (ray.fx - ray.sx), ray.t[2])

rayEy(ray) == Rat(ray.sy * ray.t[2] + ray.t[1] * (ray.fy - ray.sy), ray.t[2])

\* The two endpoints of an edge in world coordinates, start first.
edgeEnd(edge, i) ==
    IF i = 0 THEN <<edge.sx * TILE_SIZE, edge.sy * TILE_SIZE>>
    ELSE <<edge.ex * TILE_SIZE, edge.ey * TILE_SIZE>>

\* The decimal digits of a number that is not negative, as a template
\* literal writes it.
RECURSIVE Digits(_)
Digits(n) == IF n < 10 THEN <<n>> ELSE Digits(n \div 10) \o <<n % 10>>

\* The comma of the key, among the digits 0 .. 9.
Comma == 10

\* A key made of x alone.
rayKey_XOnly(x, y) == Digits(x)

\* `${x},${y}`
rayKey(x, y) == Digits(x) \o <<Comma>> \o Digits(y)

\* The first loop: es is getAllEdges(), j counts edge endpoints (edge
\* j \div 2 + 1, endpoint j % 2); acc is [rays, visited].
RECURSIVE castRays(_, _, _, _)
castRays(light, es, j, acc) ==
    IF j >= 2 * Len(es) THEN acc.rays
    ELSE LET p == edgeEnd(es[(j \div 2) + 1], j % 2)
         IN IF rayKey(p[1], p[2]) \in acc.visited THEN castRays(light, es, j + 1, acc)
            ELSE castRays(light, es, j + 1,
                    [rays |-> acc.rays \o
                        <<castRay(light[1], light[2], p[1], p[2], -1),
                          castRay(light[1], light[2], p[1], p[2], 0),
                          castRay(light[1], light[2], p[1], p[2], 1)>>,
                     visited |-> acc.visited \cup {rayKey(p[1], p[2])}])

\* lineIntersect(ray.sx, ray.sy, ray.ex, ray.ey, edge ...) on the ray as it
\* is now.  The current end is light + t * (far - light), so the segment
\* light -> end meets the edge where light -> far meets it at a parameter u
\* with u <= t (u / t is the parameter on the current segment, the edge
\* parameter s is the same); a ray of length 0 gives a zero denominator.
rayIntersect(ray, edge) ==
    LET it == lineIntersect(ray.sx, ray.sy, ray.fx, ray.fy,
                            edge.sx * TILE_SIZE, edge.sy * TILE_SIZE,
                            edge.ex * TILE_SIZE, edge.ey * TILE_SIZE)
    IN IF it # NoPoint /\ ray.t[1] > 0 /\ RatLeq(it.t, ray.t) THEN it ELSE NoPoint

\* The comparison turned round.
distLess_Greater(it, ray) == RatLess(ray.t, it.t)

\* dist < rayLen: both points lie on the ray from the light, at the
\* parameters u and t of the segment light -> far.
distLess(it, ray) == RatLess(it.t, ray.t)

\* The body of the inner clipping loop for one ray and one edge.
clipOne(ray, edge) ==
    LET it == rayIntersect(ray, edge)
    IN IF it # NoPoint /\ distLess(it, ray) THEN [ray EXCEPT !.t = it.t] ELSE ray

\* The inner loop from edge j on: the ray is clipped by one edge before the
\* next edge is taken.
RECURSIVE clipRayFrom(_, _, _)
clipRayFrom(ray, es, j) ==
    IF j > Len(es) THEN ray
    ELSE LET clipped == clipOne(ray, es[j])
         IN IF clipped = ray THEN clipRayFrom(ray, es, j + 1)
            ELSE clipRayFrom(clipped, es, j + 1)

clipRays(rs, es) == [i \in 1 .. Len(rs) |-> clipRayFrom(rs[i], es, 1)]

\* The order of atan2 values in (-pi, pi]: below the x axis, on its
\* positive half, above it, on its negative half.
Quadrant(dx, dy) == IF dy < 0 THEN 0 ELSE IF dy > 0 THEN 2 ELSE IF dx >= 0 THEN 1 ELSE 3

Cross(ax, ay, bx, by) == ax * by - ay * bx

Dot(ax, ay, bx, by) == ax * bx + ay * by

baseLess(ax, ay, bx, by) ==
    \/ Quadrant(ax, ay) < Quadrant(bx, by)
    \/ Quadrant(ax, ay) = Quadrant(bx, by) /\ Cross(ax, ay, bx, by) > 0

\* The angle from a up to b is below m * eps (m > 0): its tangent is at
\* most m / EpsInv.
within(ax, ay, bx, by, m) ==
    /\ Cross(ax, ay, bx, by) > 0
    /\ Dot(ax, ay, bx, by) > 0
    /\ Cross(ax, ay, bx, by) * EpsInv <= m * Dot(ax, ay, bx, by)

\* A comparison of the base angles alone, without the offsets.
angleLess_Base(a, b) ==
    baseLess(DirX(a.sx, a.sy, a.bx, a.by), DirY(a.sx, a.sy, a.bx, a.by),
             DirX(b.sx, b.sy, b.bx, b.by), DirY(b.sx, b.sy, b.bx, b.by))

\* a.angle < b.angle
angleLess(a, b) ==
    LET ax == DirX(a.sx, a.sy, a.bx, a.by)
        ay == DirY(a.sx, a.sy, a.bx, a.by)
        bx == DirX(b.sx, b.sy, b.bx, b.by)
        by == DirY(b.sx, b.sy, b.bx, b.by)
        m == a.k - b.k
    IN IF baseLess(ax, ay, bx, by) THEN m <= 0 \/ ~within(ax, ay, bx, by, m)
       ELSE IF baseLess(bx, by, ax, ay) THEN m < 0 /\ within(bx, by, ax, ay, -m)
       ELSE m < 0

\* A ray put at the end of the list, whatever its angle.
insertRay_Append(sorted, r) == sorted \o <<r>>

\* One ray put into a list that is in order: behind the rays of smaller or
\* equal angle (the sort is stable), d places from the end.
insertRay(sorted, r) ==
    LET n == Len(sorted)
        d == CHOOSE d \in 0 .. n :
                /\ d = n \/ ~angleLess(r, sorted[n - d])
                /\ \A e \in 0 .. d - 1 : angleLess(r, sorted[n - e])
    IN SubSeq(sorted, 1, n - d) \o <<r>> \o SubSeq(sorted, n - d + 1, n)

\* The rays behind the first Len(sorted) put in, one after the other.
RECURSIVE sortFrom(_, _)
sortFrom(rs, sorted) ==
    IF Len(sorted) = Len(rs) THEN sorted
    ELSE sortFrom(rs, insertRay(sorted, rs[Len(sorted) + 1]))

\* rays.sort((a, b) => a.angle - b.angle) on the first n rays.
sortRays(rs, n) == sortFrom(SubSeq(rs, 1, n), <<>>)

\* A reset that leaves the list as it is.
resetRays_Keep(rs) == rs

\* rays.length = 0
resetRays(rs) == <<>>

getRaysToEdges(rs, light, es) ==
    IF light = NoLight THEN resetRays(rs)
    ELSE LET all == getAllEdges(es)
             cast == castRays(light, all, 0, [rays |-> resetRays(rs), visited |-> {}])
             clipped == clipRays(cast, all)
         IN sortRays(clipped, Len(clipped))

----------------------------------------------------------------------------
(* The grid and the edge extractor on their own: setCell and computeEdges  *)
(* called in any order (canvas.ts calls them one after the other).         *)

Unused ==
    /\ rays = <<>>
    /\ lightSource = NoLight
    /\ isCreating = FALSE
    /\ isRemoving = FALSE
    /\ isTransaction = FALSE
    /\ wasCalled = FALSE
    /\ clipRay = 0
    /\ clipEdge = 0
    /\ dropped = 0
    /\ txSets = 0
    /\ args = <<>>
    /\ result = <<>>

\* The cells setupCanvas creates around the border, as setCell leaves them.
BorderCoords == {c \in Coords : c[1] \in {0, TILE_X_COUNT - 1} \/ c[2] \in {0, TILE_Y_COUNT - 1}}

BorderCells == [c \in BorderCoords |-> createCell(c[1], c[2])]

\* Either the empty Maps of createCells and createEdges, or the grid after
\* the border fill of setupCanvas, before its first computeEdges.
InitEdges ==
    /\ cells \in {EmptyMap, BorderCells}
    /\ edges = EmptyMap
    /\ edgeId = 1
    /\ fault = FALSE
    /\ pc = "init"
    /\ edits = 0
    /\ recomputes = 0
    /\ Unused

SetCellStep(x, y, value) ==
    /\ UNCHANGED <<args, result>>
    /\ edits < MaxEdits
    /\ ~fault
    /\ cells' = setCell(cells, x, y, value)
    /\ edits' = edits + 1
    /\ pc' = "setCell"
    /\ recomputes' = 0
    /\ UNCHANGED <<edges, edgeId, fault, rays, lightSource, isCreating, isRemoving,
                   isTransaction, wasCalled, clipRay, clipEdge, dropped, txSets>>

ComputeEdgesStep ==
    /\ UNCHANGED <<args, result>>
    /\ ~fault
    /\ LET st == computeEdges(Store)
       IN /\ cells' = st.cells
          /\ edges' = st.edges
          /\ edgeId' = st.edgeId
          /\ fault' = st.fault
    /\ pc' = "computeEdges"
    /\ recomputes' = 1
    /\ UNCHANGED <<edits, rays, lightSource, isCreating, isRemoving,
                   isTransaction, wasCalled, clipRay, clipEdge, dropped, txSets>>

NextEdges ==
    \/ \E x \in Xs, y \in Ys, value \in BOOLEAN : SetCellStep(x, y, value)
    \/ ComputeEdgesStep

SpecEdges == InitEdges /\ [][NextEdges]_vars

----------------------------------------------------------------------------
(* transactionable(computeEdges) and the Proxy around createCells of       *)
(* part_000.  A transaction state is the store with isTransaction,         *)
(* wasCalled and the number of computeEdges runs.                          *)

TxStore ==
    [cells |-> cells, edges |-> edges, edgeId |-> edgeId, fault |-> fault,
     isTransaction |-> isTransaction, wasCalled |-> wasCalled, runs |-> 0]

\* fn(), that is computeEdges, counted.
runFn(tx) ==
    LET st == computeEdges([cells |-> tx.cells, edges |-> tx.edges,
                            edgeId |-> tx.edgeId, fault |-> tx.fault])
    IN [tx EXCEPT !.cells = st.cells, !.edges = st.edges, !.edgeId = st.edgeId,
                  !.fault = st.fault, !.runs = tx.runs + 1]

\* The function transactionable returns.
tComputeEdges(tx) ==
    IF tx.isTransaction THEN [tx EXCEPT !.wasCalled = TRUE] ELSE runFn(tx)

lock(tx) == [tx EXCEPT !.isTransaction = TRUE]

\* An unlock that recomputes whether or not setCell was called.
unlock_Always(tx) ==
    [runFn([tx EXCEPT !.isTransaction = FALSE]) EXCEPT !.wasCalled = FALSE]

unlock(tx) ==
    LET open == [tx EXCEPT !.isTransaction = FALSE]
        ran == IF open.wasCalled THEN runFn(open) ELSE open
    IN [ran EXCEPT !.wasCalled = FALSE]

\* A setCell that is not followed by a recompute.
proxySetCell_NoCompute(tx, x, y, value) ==
    [tx EXCEPT !.cells = setCell(tx.cells, x, y, value)]

\* The setCell the Proxy hands out: target.setCell(x, y, value); tComputeEdges().
\* Outside a transaction this is setCell(...) followed by computeEdges(),
\* the sequence the handlers of canvas.ts spell out.
proxySetCell(tx, x, y, value) ==
    IF tx.fault THEN tx
    ELSE tComputeEdges([tx EXCEPT !.cells = setCell(tx.cells, x, y, value)])

InitTx ==
    /\ cells = EmptyMap
    /\ edges = EmptyMap
    /\ edgeId = 1
    /\ fault = FALSE
    /\ pc = "init"
    /\ edits = 0
    /\ recomputes = 0
    /\ Unused

TxApply(tx) ==
    /\ cells' = tx.cells
    /\ edges' = tx.edges
    /\ edgeId' = tx.edgeId
    /\ fault' = tx.fault
    /\ isTransaction' = tx.isTransaction
    /\ wasCalled' = tx.wasCalled
    /\ recomputes' = tx.runs

TxLock ==
    /\ UNCHANGED <<args, result>>
    /\ ~fault
    /\ TxApply(lock(TxStore))
    /\ pc' = "lock"
    /\ txSets' = IF isTransaction THEN txSets ELSE 0
    /\ UNCHANGED <<rays, lightSource, isCreating, isRemoving, clipRay, clipEdge, dropped, edits>>

TxUnlock ==
    /\ UNCHANGED <<args, result>>
    /\ ~fault
    /\ TxApply(unlock(TxStore))
    /\ pc' = "unlock"
    /\ txSets' = 0
    /\ UNCHANGED <<rays, lightSource, isCreating, isRemoving, clipRay, clipEdge, dropped, edits>>

TxSetCell(x, y, value) ==
    /\ UNCHANGED <<args, result>>
    /\ ~fault
    /\ edits < MaxEdits
    /\ TxApply(proxySetCell(TxStore, x, y, value))
    /\ pc' = "setCell"
    /\ edits' = edits + 1
    /\ txSets' = IF isTransaction THEN txSets + 1 ELSE 0
    /\ UNCHANGED <<rays, lightSource, isCreating, isRemoving, clipRay, clipEdge, dropped>>

NextTx ==
    \/ TxLock
    \/ TxUnlock
    \/ \E x \in Xs, y \in Ys, value \in BOOLEAN : TxSetCell(x, y, value)

SpecTx == InitTx /\ [][NextTx]_vars

----------------------------------------------------------------------------
(* setupCanvas and its handlers.                                           *)

\* The pointer positions tried: the middle of the tiles (0, 0) to
\* (MaxPointer, MaxPointer), border tiles and tiles inside the border.
Pixels ==
    {<<c[1] * TILE_SIZE + TILE_SIZE \div 2, c[2] * TILE_SIZE + TILE_SIZE \div 2>> :
        c \in {d \in Coords : d[1] <= MaxPointer /\ d[2] <= MaxPointer}}

\* Math.floor(x / TILE_SIZE), x >= 0.
tileOf(x) == x \div TILE_SIZE

Buttons == {0, 2}

\* tComputeEdges.lock(); the two fill loops; tComputeEdges.unlock()
\* (canvas.ts: the two fill loops; computeEdges()).
RECURSIVE fillBorder(_, _)
fillBorder(tx, todo) ==
    IF todo = {} THEN tx
    ELSE LET c == CHOOSE d \in todo : TRUE
         IN fillBorder(proxySetCell(tx, c[1], c[2], TRUE), todo \ {c})

setupCanvas ==
    unlock(fillBorder(lock([cells |-> EmptyMap, edges |-> EmptyMap, edgeId |-> 1,
                            fault |-> FALSE, isTransaction |-> FALSE,
                            wasCalled |-> FALSE, runs |-> 0]),
                      BorderCoords))

Init ==
    /\ cells = setupCanvas.cells
    /\ edges = setupCanvas.edges
    /\ edgeId = setupCanvas.edgeId
    /\ fault = setupCanvas.fault
    /\ isTransaction = setupCanvas.isTransaction
    /\ wasCalled = setupCanvas.wasCalled
    /\ recomputes = setupCanvas.runs
    /\ rays = <<>>
    /\ lightSource = NoLight
    /\ isCreating = FALSE
    /\ isRemoving = FALSE
    /\ pc = "init"
    /\ clipRay = 0
    /\ clipEdge = 0
    /\ dropped = 0
    /\ edits = 0
    /\ txSets = 0
    /\ args = <<>>
    /\ result = <<>>

\* A drag whose setCell calls are not followed by a recompute.
dragCells_NoCompute(tx, tileX, tileY) ==
    LET a == IF isCreating THEN proxySetCell_NoCompute(tx, tileX, tileY, TRUE) ELSE tx
    IN IF isRemoving THEN proxySetCell_NoCompute(a, tileX, tileY, FALSE) ELSE a

\* A move that creates the cell under the pointer, drag or no drag.
dragCells_Always(tx, tileX, tileY) == proxySetCell(tx, tileX, tileY, TRUE)

\* The two conditional setCell calls of the mousemove handler.
dragCells(tx, tileX, tileY) ==
    LET a == IF isCreating THEN proxySetCell(tx, tileX, tileY, TRUE) ELSE tx
    IN IF isRemoving THEN proxySetCell(a, tileX, tileY, FALSE) ELSE a

DragEdits == (IF isCreating THEN 1 ELSE 0) + (IF isRemoving THEN 1 ELSE 0)

MouseMove(x, y) ==
    /\ UNCHANGED <<args, result>>
    /\ ~fault
    /\ edits + DragEdits <= MaxEdits
    /\ LET tx == dragCells(TxStore, tileOf(x), tileOf(y))
       IN /\ TxApply(tx)
          /\ lightSource' = <<x, y>>
          /\ rays' = IF tx.fault THEN rays ELSE getRaysToEdges(rays, <<x, y>>, tx.edges)
    /\ edits' = edits + DragEdits
    /\ pc' = "mousemove"
    /\ UNCHANGED <<isCreating, isRemoving, clipRay, clipEdge, dropped, txSets>>

MouseLeave ==
    /\ UNCHANGED <<args, result>>
    /\ ~fault
    /\ lightSource' = NoLight
    /\ pc' = "mouseleave"
    /\ recomputes' = 0
    /\ UNCHANGED <<cells, edges, edgeId, rays, isCreating, isRemoving, isTransaction,
                   wasCalled, fault, clipRay, clipEdge, dropped, edits, txSets>>

MouseDown(x, y, button) ==
    /\ UNCHANGED <<args, result>>
    /\ ~fault
    /\ pc' = "mousedown"
    /\ IF button = 2
       THEN /\ recomputes' = 0
            /\ UNCHANGED <<cells, edges, edgeId, fault, isTransaction, wasCalled,
                           isCreating, isRemoving, edits>>
       ELSE /\ edits < MaxEdits
            /\ isRemoving' = hasCell(cells, tileOf(x), tileOf(y))
            /\ isCreating' = ~hasCell(cells, tileOf(x), tileOf(y))
            /\ TxApply(proxySetCell(TxStore, tileOf(x), tileOf(y),
                                    ~hasCell(cells, tileOf(x), tileOf(y))))
            /\ edits' = edits + 1
    /\ UNCHANGED <<rays, lightSource, clipRay, clipEdge, dropped, txSets>>

MouseUp ==
    /\ UNCHANGED <<args, result>>
    /\ ~fault
    /\ isRemoving' = FALSE
    /\ isCreating' = FALSE
    /\ pc' = "mouseup"
    /\ recomputes' = 0
    /\ UNCHANGED <<cells, edges, edgeId, rays, lightSource, isTransaction, wasCalled,
                   fault, clipRay, clipEdge, dropped, edits, txSets>>

\* renderScene, by what it reads: drawCells the cells, drawEdges the edges,
\* drawPolygons (drawLight in part_000) the ends of the rays when there is
\* at least one, drawLightSource the light when there is one.
renderScene ==
    [cells |-> DOMAIN cells,
     edges |-> getAllEdges(edges),
     polygon |-> [i \in 1 .. Len(rays) |-> <<rayEx(rays[i]), rayEy(rays[i])>>],
     light |-> lightSource]

\* A frame: renderScene changes none of what it reads.
Render ==
    /\ UNCHANGED <<args, result>>
    /\ ~fault
    /\ pc' = "render"
    /\ recomputes' = 0
    /\ UNCHANGED <<cells, edges, edgeId, rays, lightSource, isCreating, isRemoving,
                   isTransaction, wasCalled, fault, clipRay, clipEdge, dropped, edits, txSets>>

Next ==
    \/ \E p \in Pixels : MouseMove(p[1], p[2])
    \/ MouseLeave
    \/ \E p \in Pixels, button \in Buttons : MouseDown(p[1], p[2], button)
    \/ MouseUp
    \/ Render

Spec == Init /\ [][Next]_vars

----------------------------------------------------------------------------
(* getRaysToEdges on its own, one iteration of the clipping loop at a      *)
(* time, over a few grids and light positions.                             *)

PointerTiles == {d \in Coords : d[1] <= MaxPointer /\ d[2] <= MaxPointer}

\* The grids tried: empty, the border, the border with a gap, a single cell.
VisGrids ==
    {{}, BorderCoords}
        \cup {BorderCoords \ {c} : c \in PointerTiles \cap BorderCoords}
        \cup {{c} : c \in PointerTiles}

\* The middle of the canvas.
Centre == <<(TILE_X_COUNT * TILE_SIZE) \div 2, (TILE_Y_COUNT * TILE_SIZE) \div 2>>

\* The light positions tried: the pointer positions, the middle of the
\* canvas and a tile corner, where the light lies on edge endpoints.
VisLights == Pixels \cup {Centre, <<TILE_SIZE, TILE_SIZE>>}

gridOf(occ) ==
    computeEdges([cells |-> [c \in occ |-> createCell(c[1], c[2])],
                  edges |-> EmptyMap, edgeId |-> 1, fault |-> FALSE])

InitVis ==
    /\ \E occ \in VisGrids :
          /\ cells = gridOf(occ).cells
          /\ edges = gridOf(occ).edges
          /\ edgeId = gridOf(occ).edgeId
    /\ fault = FALSE
    /\ rays = <<>>
    /\ lightSource = NoLight
    /\ isCreating = FALSE
    /\ isRemoving = FALSE
    /\ isTransaction = FALSE
    /\ wasCalled = FALSE
    /\ pc = "idle"
    /\ clipRay = 0
    /\ clipEdge = 0
    /\ dropped = 0
    /\ edits = 0
    /\ recomputes = 0
    /\ txSets = 0
    /\ args = <<>>
    /\ result = <<>>

VisFrame == <<cells, edges, edgeId, isCreating, isRemoving, isTransaction, wasCalled,
              fault, edits, recomputes, txSets>>

\* lightSource = [x, y] (mousemove) or lightSource = null (mouseleave),
\* between two runs of getRaysToEdges.
SetLight(light) ==
    /\ UNCHANGED <<args, result>>
    /\ pc \in {"idle", "returned", "sorted"}
    /\ lightSource' = light
    /\ pc' = "idle"
    /\ UNCHANGED <<rays, clipRay, clipEdge, dropped>>
    /\ UNCHANGED VisFrame

\* rays.length = 0; if (!lightSource) return
RaysReturn ==
    /\ UNCHANGED <<args, result>>
    /\ pc = "idle"
    /\ lightSource = NoLight
    /\ rays' = resetRays(rays)
    /\ dropped' = Len(rays)
    /\ pc' = "returned"
    /\ UNCHANGED <<lightSource, clipRay, clipEdge>>
    /\ UNCHANGED VisFrame

\* rays.length = 0; the loop that casts three rays at every distinct endpoint.
RaysCast ==
    /\ UNCHANGED <<args, result>>
    /\ pc = "idle"
    /\ lightSource # NoLight
    /\ rays' = castRays(lightSource, getAllEdges(edges), 0,
                        [rays |-> resetRays(rays), visited |-> {}])
    /\ dropped' = Len(rays)
    /\ clipRay' = 1
    /\ clipEdge' = 1
    /\ pc' = "clip"
    /\ UNCHANGED lightSource
    /\ UNCHANGED VisFrame

\* One iteration of the inner loop: ray clipRay against edge clipEdge.
ClipStep ==
    /\ UNCHANGED <<args, result>>
    /\ pc = "clip"
    /\ clipRay <= Len(rays)
    /\ clipEdge <= Len(getAllEdges(edges))
    /\ rays' = [rays EXCEPT ![clipRay] = clipOne(rays[clipRay], getAllEdges(edges)[clipEdge])]
    /\ IF clipEdge = Len(getAllEdges(edges))
       THEN clipRay' = clipRay + 1 /\ clipEdge' = 1
       ELSE clipRay' = clipRay /\ clipEdge' = clipEdge + 1
    /\ UNCHANGED <<lightSource, pc, dropped>>
    /\ UNCHANGED VisFrame

\* rays.sort(...) once both loops are through.
SortStep ==
    /\ UNCHANGED <<args, result>>
    /\ pc = "clip"
    /\ clipRay > Len(rays) \/ getAllEdges(edges) = <<>>
    /\ rays' = sortRays(rays, Len(rays))
    /\ pc' = "sorted"
    /\ clipRay' = 0
    /\ clipEdge' = 0
    /\ UNCHANGED <<lightSource, dropped>>
    /\ UNCHANGED VisFrame

NextVis ==
    \/ \E light \in VisLights \cup {NoLight} : SetLight(light)
    \/ RaysReturn
    \/ RaysCast
    \/ ClipStep
    \/ SortStep

SpecVis == InitVis /\ [][NextVis]_vars

----------------------------------------------------------------------------
(* createCells as the code has it: a Map from x to a Map from y to the     *)
(* Cell.  A Map is a function on its keys.  The sections above hold the    *)
(* same grid as the function on the occupied pairs (x, y) that Flat gives. *)

Undefined == <<>>

\* Map.prototype.get: undefined for a key the Map does not have.
mapGet(mp, k) ==
    IF k \in DOMAIN mp THEN [defined |-> TRUE, val |-> mp[k]]
    ELSE [defined |-> FALSE, val |-> Undefined]

\* Map.prototype.set
mapSet(mp, k, v) == [j \in (DOMAIN mp) \cup {k} |-> IF j = k THEN v ELSE mp[j]]

\* Map.prototype.delete
mapDelete(mp, k) == [j \in (DOMAIN mp) \ {k} |-> mp[j]]

\* cells.get(x)?.has(y) ?? false
mapHasCell(mp, x, y) ==
    IF mapGet(mp, x).defined THEN y \in DOMAIN mapGet(mp, x).val ELSE FALSE

\* cells.get(x)?.get(y)
mapGetCell(mp, x, y) ==
    IF mapGet(mp, x).defined THEN mapGet(mapGet(mp, x).val, y).val ELSE Undefined

\* A removal that drops the whole inner Map of x.
mapSetCell_DropColumn(mp, x, y, value) ==
    IF value
    THEN LET m1 == IF x \notin DOMAIN mp THEN mapSet(mp, x, EmptyMap) ELSE mp
         IN mapSet(m1, x, mapSet(m1[x], y, createCell(x, y)))
    ELSE mapDelete(mp, x)

\* setCell: the inner Map is created on the first cell of a column and is
\* left in place, empty, when its last cell goes; ?. skips the call when
\* there is no inner Map.
mapSetCell(mp, x, y, value) ==
    IF value
    THEN LET m1 == IF x \notin DOMAIN mp THEN mapSet(mp, x, EmptyMap) ELSE mp
         IN IF mapGet(m1, x).defined
            THEN mapSet(m1, x, mapSet(mapGet(m1, x).val, y, createCell(x, y)))
            ELSE m1
    ELSE IF mapGet(mp, x).defined
         THEN mapSet(mp, x, mapDelete(mapGet(mp, x).val, y))
         ELSE mp

\* getAllCells: the cells of every inner Map (as a set: the order of the
\* array is the insertion order of the Maps, which nothing reads).
mapGetAllCells(mp) == UNION {{mp[x][y] : y \in DOMAIN mp[x]} : x \in DOMAIN mp}

\* The grid a Map of Maps stands for.
Flat(mp) ==
    [c \in {d \in Coords : mapHasCell(mp, d[1], d[2])} |-> mapGetCell(mp, c[1], c[2])]

InitCells ==
    /\ cells = EmptyMap
    /\ args = <<>>
    /\ result = <<>>
    /\ edges = EmptyMap
    /\ edgeId = 1
    /\ fault = FALSE
    /\ rays = <<>>
    /\ lightSource = NoLight
    /\ isCreating = FALSE
    /\ isRemoving = FALSE
    /\ isTransaction = FALSE
    /\ wasCalled = FALSE
    /\ pc = "init"
    /\ clipRay = 0
    /\ clipEdge = 0
    /\ dropped = 0
    /\ edits = 0
    /\ recomputes = 0
    /\ txSets = 0

\* One call of setCell on the Map of Maps held in cells.
MapSetCellStep(x, y, value) ==
    /\ edits < MaxEdits
    /\ cells' = mapSetCell(cells, x, y, value)
    /\ args' = <<x, y, value>>
    /\ edits' = edits + 1
    /\ pc' = "setCell"
    /\ UNCHANGED <<result, edges, edgeId, fault, rays, lightSource, isCreating,
                   isRemoving, isTransaction, wasCalled, clipRay, clipEdge, dropped,
                   recomputes, txSets>>

NextCells == \E x \in Xs, y \in Ys, value \in BOOLEAN : MapSetCellStep(x, y, value)

SpecCells == InitCells /\ [][NextCells]_vars

----------------------------------------------------------------------------
(* lineIntersect on its own, over segments with ends on a few coordinates. *)

LineXs == {0, 1, 5, 10}

LineYs == {-5, 0, 5}

LineArgs == LineXs \X LineYs \X LineXs \X LineYs \X LineXs \X LineYs \X LineXs \X LineYs

InitLine ==
    /\ args \in LineArgs
    /\ result = <<>>
    /\ cells = EmptyMap
    /\ edges = EmptyMap
    /\ edgeId = 1
    /\ fault = FALSE
    /\ rays = <<>>
    /\ lightSource = NoLight
    /\ isCreating = FALSE
    /\ isRemoving = FALSE
    /\ isTransaction = FALSE
    /\ wasCalled = FALSE
    /\ pc = "init"
    /\ clipRay = 0
    /\ clipEdge = 0
    /\ dropped = 0
    /\ edits = 0
    /\ recomputes = 0
    /\ txSets = 0

\* One call of lineIntersect.
LineIntersectStep ==
    /\ pc = "init"
    /\ result' = lineIntersect(args[1], args[2], args[3], args[4],
                               args[5], args[6], args[7], args[8])
    /\ pc' = "lineIntersect"
    /\ UNCHANGED <<args, cells, edges, edgeId, fault, rays, lightSource, isCreating,
                   isRemoving, isTransaction, wasCalled, clipRay, clipEdge, dropped,
                   edits, recomputes, txSets>>

NextLine == LineIntersectStep

SpecLine == InitLine /\ [][NextLine]_vars

----------------------------------------------------------------------------
(* What the claims about computeEdges speak of, stated from the occupancy  *)
(* alone.                                                                  *)

Occupied == DOMAIN cells

\* The coordinate across a side: north (x, y-1), east (x+1, y), south (x, y+1), west (x-1, y).
Neighbour(c, side) ==
    IF side = 0 THEN <<c[1], c[2] - 1>>
    ELSE IF side = 1 THEN <<c[1] + 1, c[2]>>
    ELSE IF side = 2 THEN <<c[1], c[2] + 1>>
    ELSE <<c[1] - 1, c[2]>>

IsBoundary(c, side) == c \in Occupied /\ Neighbour(c, side) \notin Occupied

Horizontal(side) == side \in {0, 2}

\* c and d lie on one row (north, south) or one column (east, west) and every
\* tile from one to the other is occupied and has the side as a boundary.
InRun(c, d, side) ==
    IF Horizontal(side)
    THEN /\ c[2] = d[2]
         /\ \A x \in Xs : (x >= c[1] /\ x <= d[1]) \/ (x >= d[1] /\ x <= c[1])
                => IsBoundary(<<x, c[2]>>, side)
    ELSE /\ c[1] = d[1]
         /\ \A y \in Ys : (y >= c[2] /\ y <= d[2]) \/ (y >= d[2] /\ y <= c[2])
                => IsBoundary(<<c[1], y>>, side)

RunOf(c, side) == {d \in Occupied : InRun(c, d, side)}

MinOf(S) == CHOOSE m \in S : \A n \in S : m <= n

MaxOf(S) == CHOOSE m \in S : \A n \in S : m >= n

\* The segment from the first cell's side start to the last cell's side end.
RunEdge(c, side) ==
    LET xs == {d[1] : d \in RunOf(c, side)}
        ys == {d[2] : d \in RunOf(c, side)}
    IN IF side = 0 THEN [sx |-> MinOf(xs), sy |-> c[2], ex |-> MaxOf(xs) + 1, ey |-> c[2]]
       ELSE IF side = 2 THEN [sx |-> MinOf(xs), sy |-> c[2] + 1, ex |-> MaxOf(xs) + 1, ey |-> c[2] + 1]
       ELSE IF side = 1 THEN [sx |-> c[1] + 1, sy |-> MinOf(ys), ex |-> c[1] + 1, ey |-> MaxOf(ys) + 1]
       ELSE [sx |-> c[1], sy |-> MinOf(ys), ex |-> c[1], ey |-> MaxOf(ys) + 1]

BoundarySides == {p \in Occupied \X Sides : IsBoundary(p[1], p[2])}

\* The side kinds under which some cell stores edge id i.
KindsOf(i) == {p[2] : p \in {q \in Occupied \X Sides :
                        cells[q[1]].existEdges[q[2]] /\ cells[q[1]].edgeIds[q[2]] = i}}

\* Two segments on one line that share at least a point.
Collinear(e, f) ==
    \/ e.sy = e.ey /\ f.sy = f.ey /\ e.sy = f.sy
    \/ e.sx = e.ex /\ f.sx = f.ex /\ e.sx = f.sx

TouchOrOverlap(e, f) ==
    /\ Collinear(e, f)
    /\ IF e.sy = e.ey /\ f.sy = f.ey /\ e.sy = f.sy
       THEN e.sx <= f.ex /\ f.sx <= e.ex
       ELSE e.sy <= f.ey /\ f.sy <= e.ey

\* ... that share more than a point.
Overlap(e, f) ==
    /\ Collinear(e, f)
    /\ IF e.sy = e.ey /\ f.sy = f.ey /\ e.sy = f.sy
       THEN e.sx < f.ex /\ f.sx < e.ex
       ELSE e.sy < f.ey /\ f.sy < e.ey

\* C1: after computeEdges, a side of an occupied cell is flagged in existEdges
\* iff no cell exists immediately across that side.
C1_BoundaryFlags ==
    pc = "computeEdges" =>
        \A c \in Occupied : \A side \in Sides :
            cells[c].existEdges[side] <=> (Neighbour(c, side) \notin Occupied)

\* An isolated cell with its four sides flagged next to two horizontally
\* adjacent cells without a boundary on their touching sides.
C1_Witness ==
    /\ pc = "computeEdges"
    /\ \E c \in Occupied :
          /\ \A side \in Sides : cells[c].existEdges[side]
          /\ \A side \in Sides : Neighbour(c, side) \notin Occupied
    /\ \E c \in Occupied :
          /\ <<c[1] + 1, c[2]>> \in Occupied
          /\ ~cells[c].existEdges[EAST]
          /\ ~cells[<<c[1] + 1, c[2]>>].existEdges[WEST]

\* C2: after computeEdges, every maximal run of cells along a row (north,
\* south) or a column (east, west) that have the side as a boundary owns
\* exactly one edge: all the cells of the run store one id for the side, that
\* edge spans from the first cell's side start to the last cell's side end,
\* cells of different runs store different ids, and the store holds no other edge.
C2_OneEdgePerRun ==
    pc = "computeEdges" =>
        /\ \A p \in BoundarySides :
              /\ cells[p[1]].edgeIds[p[2]] \in DOMAIN edges
              /\ edges[cells[p[1]].edgeIds[p[2]]] = RunEdge(p[1], p[2])
        /\ \A p \in BoundarySides : \A q \in BoundarySides :
              (cells[p[1]].edgeIds[p[2]] = cells[q[1]].edgeIds[q[2]])
                  <=> (p[2] = q[2] /\ InRun(p[1], q[1], p[2]))
        /\ \A i \in DOMAIN edges :
              \E p \in BoundarySides : cells[p[1]].edgeIds[p[2]] = i

\* Three horizontally adjacent cells with nothing above: one north edge from
\* x0 to x0 + 3.
C2_Witness ==
    /\ pc = "computeEdges"
    /\ \E c \in Occupied :
          /\ Cardinality(RunOf(c, NORTH)) = 3
          /\ IsBoundary(c, NORTH)
          /\ c[1] = MinOf({d[1] : d \in RunOf(c, NORTH)})
          /\ edges[cells[c].edgeIds[NORTH]].sx = c[1]
          /\ edges[cells[c].edgeIds[NORTH]].ex = c[1] + 3

\* C3 as stated: after computeEdges no two distinct edges are collinear and
\* touch or overlap.
C3_Original ==
    pc = "computeEdges" =>
        \A i \in DOMAIN edges : \A j \in DOMAIN edges :
            i # j => ~TouchOrOverlap(edges[i], edges[j])

\* C3 as amended: after computeEdges no two distinct edges of the same side
\* kind are collinear and touch or overlap, and no two distinct edges
\* overlap in more than a point.
C3_MaximalPerKind ==
    pc = "computeEdges" =>
        \A i \in DOMAIN edges : \A j \in DOMAIN edges :
            i # j =>
                /\ KindsOf(i) \cap KindsOf(j) # {} => ~TouchOrOverlap(edges[i], edges[j])
                /\ ~Overlap(edges[i], edges[j])

\* Two cells meeting at a corner: the south edge of one and the north edge
\* of the other lie on one line and touch, and a merged edge exists.
C3_Witness ==
    /\ pc = "computeEdges"
    /\ \E i \in DOMAIN edges : \E j \in DOMAIN edges :
          /\ i # j
          /\ TouchOrOverlap(edges[i], edges[j])
          /\ KindsOf(i) = {SOUTH}
          /\ KindsOf(j) = {NORTH}
    /\ \E i \in DOMAIN edges : edges[i].ex - edges[i].sx >= 2

SameGeometry(es, fs) ==
    /\ Cardinality(DOMAIN es) = Cardinality(DOMAIN fs)
    /\ {es[i] : i \in DOMAIN es} = {fs[i] : i \in DOMAIN fs}

SameFlags(cs, ds) ==
    /\ DOMAIN cs = DOMAIN ds
    /\ \A c \in DOMAIN cs : cs[c].existEdges = ds[c].existEdges

\* C7: a computeEdges run that directly follows a computeEdges run leaves the
\* number of edges, their endpoints and the boundary flags of every cell as
\* the first run left them.
C7_Idempotent ==
    [][(pc = "computeEdges" /\ pc' = "computeEdges") =>
          (SameGeometry(edges, edges') /\ SameFlags(cells, cells'))]_vars

\* A recompute has run on a grid that was changed after an earlier
\* recompute, and left merged edges.
C7_Witness ==
    /\ pc = "computeEdges"
    /\ edits >= 2
    /\ \E i \in DOMAIN edges : edges[i].ex - edges[i].sx >= 2
    /\ \E i \in DOMAIN edges : edges[i].ey - edges[i].sy >= 1

----------------------------------------------------------------------------
(* The handlers, the renderer and the transaction.                         *)

\* The store holds what a full recompute of the grid as it is now gives.
EdgesFresh == edges = computeEdges(Store).edges

\* C4: whenever a handler has run (getRaysToEdges inside it, or the
\* renderer after it, reads the edges), the edge set is the result of a full
\* recompute on the grid as it is now.
C4_EdgesFollowGrid == ~fault /\ EdgesFresh

\* A drag has changed the grid twice or more and the visibility
\* computation of the last mousemove has read the edges.
C4_Witness ==
    /\ pc = "mousemove"
    /\ edits >= 2
    /\ isCreating \/ isRemoving
    /\ DOMAIN cells # BorderCoords
    /\ Len(rays) > 0

\* C5: when renderScene runs and the light source is absent, the ray list
\* it reads is empty.
C5_NoLightNoRays ==
    (pc = "render" /\ lightSource = NoLight) => renderScene.polygon = <<>>

\* C9: when renderScene runs with a light source present, the ray list it
\* paints is the visibility computation of that light position over the
\* edge set as it is now.
C9_RenderFresh ==
    (pc = "render" /\ lightSource # NoLight) =>
        rays = getRaysToEdges(rays, lightSource, edges)

\* C10, the state part: a setCell inside a transaction and a lock run no
\* recompute; a setCell outside a transaction runs one and leaves the edge
\* set equal to a full recompute; after unlock the edge set equals a full
\* recompute of the grid.
TxState ==
    /\ ~fault
    /\ pc = "lock" => recomputes = 0
    /\ (pc = "setCell" /\ isTransaction) => recomputes = 0
    /\ (pc = "setCell" /\ ~isTransaction) => (recomputes = 1 /\ EdgesFresh)
    /\ pc = "unlock" => (~isTransaction /\ EdgesFresh)

\* C10, the step part: unlock runs one recompute when setCell was called
\* since the transaction was opened, and none otherwise.
TxUnlockStep ==
    pc' = "unlock" => recomputes' = (IF txSets >= 1 THEN 1 ELSE 0)

\* C10: with the transactional wrapper, setCell calls between lock and
\* unlock run no recompute, unlock runs exactly one if setCell was called in
\* the transaction and none otherwise, the edge set after unlock is a full
\* recompute of the final grid, and a setCell outside a transaction runs
\* exactly one recompute.
C10_Transaction == [](TxState) /\ [][TxUnlockStep]_vars

\* An unlock that closed a transaction of two or more setCell calls with
\* a single recompute.
C10_Witness ==
    /\ pc = "unlock"
    /\ recomputes = 1
    /\ edits >= 2
    /\ Cardinality(DOMAIN cells) >= 2
    /\ \A c \in DOMAIN cells : \E side \in Sides : cells[c].existEdges[side]

----------------------------------------------------------------------------
(* getRaysToEdges.                                                         *)

\* C6: getRaysToEdges with an absent light source leaves an empty ray list,
\* whatever the edge set and whatever rays an earlier run left, and throws
\* nothing.
C6_NoLightEmpty ==
    pc = "returned" => (lightSource = NoLight /\ rays = <<>> /\ ~fault)

\* The run discarded the rays of an earlier run over a non-empty edge set.
C6_Witness ==
    /\ pc = "returned"
    /\ dropped > 0
    /\ DOMAIN edges # {}

\* The intersection of the ray as it was cast (light to far-field point)
\* with an edge.
castHit(ray, edge) ==
    lineIntersect(ray.sx, ray.sy, ray.fx, ray.fy,
                  edge.sx * TILE_SIZE, edge.sy * TILE_SIZE,
                  edge.ex * TILE_SIZE, edge.ey * TILE_SIZE)

HitEdges(ray) == {i \in DOMAIN edges : castHit(ray, edges[i]) # NoPoint}

\* The end of the ray is the intersection nearest to the light, or the
\* far-field point when no edge is met.
NearestEnd(ray) ==
    IF HitEdges(ray) = {} THEN ray.t = RatOne
    ELSE /\ \A i \in HitEdges(ray) : RatLeq(ray.t, castHit(ray, edges[i]).t)
         /\ \E i \in HitEdges(ray) :
               /\ rayEx(ray) = castHit(ray, edges[i]).x
               /\ rayEy(ray) = castHit(ray, edges[i]).y

\* The squared length (ex - lx)^2 + (ey - ly)^2 of a ray is t^2 times that
\* of the ray as cast.
lenLeq(a, b) == RatLeq(a.t, b.t)

\* C8: when the clipping pass is through, the end of every ray is the
\* intersection nearest to the light among its intersections with all edges,
\* or the far-field point if it meets none; and no iteration of the clipping
\* loop makes a ray longer.
C8_Clipping ==
    /\ [](pc = "sorted" => \A i \in 1 .. Len(rays) : NearestEnd(rays[i]))
    /\ [][(pc = "clip" /\ pc' = "clip") =>
             \A i \in 1 .. Len(rays) : lenLeq(rays'[i], rays[i])]_vars

\* Inside the border, the pass is through: some ray ends on an edge short
\* of the far-field point, having met more than one edge.
C8_Witness ==
    /\ pc = "sorted"
    /\ DOMAIN cells = BorderCoords
    /\ \E i \in 1 .. Len(rays) :
          /\ rays[i].t # RatOne
          /\ rays[i].t[1] > 0
          /\ Cardinality(HitEdges(rays[i])) >= 2

----------------------------------------------------------------------------
(* lineIntersect.                                                          *)

\* Twice the signed area of the triangle a, b, c.
Orient(ax, ay, bx, by, cx, cy) == Cross(bx - ax, by - ay, cx - ax, cy - ay)

\* The ends of each segment lie on both sides of, or on, the line through
\* the other.
Straddle(a) ==
    /\ Orient(a[1], a[2], a[3], a[4], a[5], a[6]) * Orient(a[1], a[2], a[3], a[4], a[7], a[8]) <= 0
    /\ Orient(a[5], a[6], a[7], a[8], a[1], a[2]) * Orient(a[5], a[6], a[7], a[8], a[3], a[4]) <= 0

\* The determinant: zero when the segments are parallel or one is a point.
Det(a) == Cross(a[3] - a[1], a[4] - a[2], a[7] - a[5], a[8] - a[6])

\* The point (x, y), two fractions, lies on the line through (ax, ay) and
\* (bx, by).
OnLine(x, y, ax, ay, bx, by) ==
    (x[1] - ax * x[2]) * y[2] * (by - ay) = (y[1] - ay * y[2]) * x[2] * (bx - ax)

\* C11: lineIntersect returns a point iff the segments are not parallel
\* (non-zero determinant) and the parameters s and t of the crossing of
\* their lines both lie in [0, 1], ends included; the point is
\* p0 + t * (p1 - p0), the crossing; every zero determinant gives none;
\* (0,0)-(10,0) with (5,-5)-(5,5) gives (5,0) and (0,0)-(1,0) with
\* (5,-5)-(5,5) gives none.
C11_LineIntersect ==
    /\ lineIntersect(0, 0, 10, 0, 5, -5, 5, 5) # NoPoint
    /\ lineIntersect(0, 0, 10, 0, 5, -5, 5, 5).x = <<5, 1>>
    /\ lineIntersect(0, 0, 10, 0, 5, -5, 5, 5).y = <<0, 1>>
    /\ lineIntersect(0, 0, 1, 0, 5, -5, 5, 5) = NoPoint
    /\ pc = "lineIntersect" =>
          /\ result # NoPoint <=> (Det(args) # 0 /\ Straddle(args))
          /\ result # NoPoint =>
                /\ OnLine(result.x, result.y, args[1], args[2], args[3], args[4])
                /\ OnLine(result.x, result.y, args[5], args[6], args[7], args[8])
                /\ result.x[1] * result.t[2] =
                      result.x[2] * (args[1] * result.t[2] + result.t[1] * (args[3] - args[1]))
                /\ result.y[1] * result.t[2] =
                      result.y[2] * (args[2] * result.t[2] + result.t[1] * (args[4] - args[2]))

\* A crossing at the very end of the first segment (t = 1) and strictly
\* inside the second, at a point that is no grid point.
C11_Witness ==
    /\ pc = "lineIntersect"
    /\ result # NoPoint
    /\ result.t = RatOne
    /\ Orient(args[1], args[2], args[3], args[4], args[5], args[6]) # 0
    /\ Orient(args[1], args[2], args[3], args[4], args[7], args[8]) # 0

----------------------------------------------------------------------------
(* The polygon drawPolygons fills: the ends of the rays in list order.     *)

\* The direction from the light to the end of the ray, in lowest terms
\* (the end lies on the segment from the light to the far-field point).
RayDir(ray) ==
    LET g == Gcd(Abs(ray.fx - ray.sx), Abs(ray.fy - ray.sy))
    IN <<(ray.fx - ray.sx) \div g, (ray.fy - ray.sy) \div g>>

\* The vertex after i on the closed polygon.
NextVertex(i) == IF i = Len(rays) THEN 1 ELSE i + 1

\* From vertex a to vertex b the polygon turns around the light by an
\* angle in [0, pi), in the sense of growing atan2.
Turns(a, b) ==
    \/ Cross(RayDir(a)[1], RayDir(a)[2], RayDir(b)[1], RayDir(b)[2]) > 0
    \/ /\ Cross(RayDir(a)[1], RayDir(a)[2], RayDir(b)[1], RayDir(b)[2]) = 0
       /\ Dot(RayDir(a)[1], RayDir(a)[2], RayDir(b)[1], RayDir(b)[2]) > 0

\* The places where the direction falls back from near pi to near -pi.
Wraps ==
    {i \in 1 .. Len(rays) :
        baseLess(RayDir(rays[NextVertex(i)])[1], RayDir(rays[NextVertex(i)])[2],
                 RayDir(rays[i])[1], RayDir(rays[i])[2])}

\* Every vertex lies away from the light on its own half-line, the
\* half-lines follow one another around the light turning one way by less
\* than half a turn each, in one turn all told, and vertices on one
\* half-line coincide: the sides lie in angular sectors that do not
\* overlap, so no two of them cross.
StarShaped ==
    /\ Len(rays) >= 3
    /\ \A i \in 1 .. Len(rays) :
          /\ rays[i].t[1] > 0
          /\ Turns(rays[i], rays[NextVertex(i)])
          /\ RayDir(rays[i]) = RayDir(rays[NextVertex(i)]) =>
                /\ rayEx(rays[i]) = rayEx(rays[NextVertex(i)])
                /\ rayEy(rays[i]) = rayEy(rays[NextVertex(i)])
    /\ Cardinality(Wraps) = 1

\* C12: with the light in the middle of the square ring of border cells,
\* the ends of the clipped rays, read in the sorted order, are the vertices
\* of a closed polygon that is star-shaped around the light and does not
\* cross itself.
C12_SimplePolygon ==
    (pc = "sorted" /\ DOMAIN cells = BorderCoords /\ lightSource = Centre) => StarShaped

\* The polygon of the ring seen from its middle: three rays to each of
\* the eight corners of the inner and outer square, all clipped.
C12_Witness ==
    /\ pc = "sorted"
    /\ DOMAIN cells = BorderCoords
    /\ lightSource = Centre
    /\ Len(rays) = 24
    /\ \A i \in 1 .. Len(rays) : rays[i].t # RatOne
    /\ Cardinality({RayDir(rays[i]) : i \in 1 .. Len(rays)}) = 12

----------------------------------------------------------------------------
(* createCells.                                                            *)

\* What the grid answers after a call of setCell.
CellsState ==
    /\ ~fault
    /\ mapGetAllCells(cells) = {mapGetCell(cells, c[1], c[2]) :
                                   c \in {d \in Coords : mapHasCell(cells, d[1], d[2])}}
    /\ Cardinality(mapGetAllCells(cells)) =
          Cardinality({d \in Coords : mapHasCell(cells, d[1], d[2])})
    /\ pc = "setCell" =>
          IF args[3]
          THEN /\ mapHasCell(cells, args[1], args[2])
               /\ mapGetCell(cells, args[1], args[2]) # Undefined
               /\ mapGetCell(cells, args[1], args[2]).x = args[1]
               /\ mapGetCell(cells, args[1], args[2]).y = args[2]
          ELSE /\ ~mapHasCell(cells, args[1], args[2])
               /\ mapGetCell(cells, args[1], args[2]) = Undefined

\* What a call of setCell leaves alone; the function on pairs changes as
\* the setCell of the other sections says.
CellsStep ==
    /\ \A c \in Coords \ {<<args'[1], args'[2]>>} :
          /\ mapHasCell(cells', c[1], c[2]) = mapHasCell(cells, c[1], c[2])
          /\ mapGetCell(cells', c[1], c[2]) = mapGetCell(cells, c[1], c[2])
    /\ (~args'[3] /\ ~mapHasCell(cells, args'[1], args'[2])) => cells' = cells
    /\ Flat(cells') = setCell(Flat(cells), args'[1], args'[2], args'[3])
    /\ hasCell(Flat(cells'), args'[1], args'[2]) = mapHasCell(cells', args'[1], args'[2])
    /\ getAllCells(Flat(cells')) = mapGetAllCells(cells')

\* C13: setCell(x, y, true) makes hasCell(x, y) true and getCell(x, y) a
\* cell with the coordinates (x, y); setCell(x, y, false) makes hasCell(x, y)
\* false and getCell(x, y) undefined, and changes nothing and throws nothing
\* when the cell was absent; either call leaves every other coordinate as
\* it was; getAllCells returns exactly the occupied cells.
C13_OccupancyGrid == [](CellsState) /\ [][CellsStep]_vars

\* A removal in a column that never held a cell, with cells elsewhere.
C13_Witness ==
    /\ pc = "setCell"
    /\ ~args[3]
    /\ args[1] \notin DOMAIN cells
    /\ Cardinality(mapGetAllCells(cells)) >= 2

----------------------------------------------------------------------------
(* The edge ids of one recompute.                                          *)

\* The grid with every cell as createCell makes it: no flag, no id.
FreshCells == [c \in DOMAIN cells |-> createCell(c[1], c[2])]

\* C14: a recompute, whatever flags and ids earlier recomputes and grid
\* mutations left in the cells, never looks up an id that is not in the
\* store, and reads no flag and no id of an earlier recompute: it gives what
\* it gives on cells that carry none.  When it is through, the ids in the
\* store are exactly 1..n, every boundary side stores one of them and every
\* other side stores 0.
C14_EdgeIds ==
    /\ ~computeEdges(Store).fault
    /\ computeEdges(Store) = computeEdges([Store EXCEPT !.cells = FreshCells])
    /\ pc = "computeEdges" =>
          /\ DOMAIN edges = 1 .. Cardinality(DOMAIN edges)
          /\ edgeId = Cardinality(DOMAIN edges) + 1
          /\ \A c \in DOMAIN cells : \A side \in Sides :
                IF IsBoundary(c, side)
                THEN cells[c].edgeIds[side] \in DOMAIN edges
                ELSE cells[c].edgeIds[side] = 0

\* A recompute is through on a grid changed twice or more; an edge spans
\* two cells and another cell has a side that is no boundary.
C14_Witness ==
    /\ pc = "computeEdges"
    /\ edits >= 2
    /\ \E c \in DOMAIN cells, d \in DOMAIN cells, side \in Sides :
          /\ c # d
          /\ cells[c].edgeIds[side] # 0
          /\ cells[c].edgeIds[side] = cells[d].edgeIds[side]
    /\ \E c \in DOMAIN cells, side \in Sides : ~IsBoundary(c, side)

----------------------------------------------------------------------------
(* The rays getRaysToEdges casts.                                          *)

\* The distinct ends of the edges, in world coordinates.
Endpoints ==
    {<<edges[i].sx * TILE_SIZE, edges[i].sy * TILE_SIZE>> : i \in DOMAIN edges}
        \cup {<<edges[i].ex * TILE_SIZE, edges[i].ey * TILE_SIZE>> : i \in DOMAIN edges}

\* The rays aimed at the point p with the offset k.
RaysAt(p, k) == {i \in 1 .. Len(rays) : rays[i].bx = p[1] /\ rays[i].by = p[2] /\ rays[i].k = k}

\* C15: with a light source, getRaysToEdges casts exactly three rays at
\* every distinct end of an edge, one at each of the offsets -eps, 0, +eps,
\* and no other ray: 3 times the number of distinct ends in all, none when
\* there is no edge.
C15_ThreePerEndpoint ==
    pc \in {"clip", "sorted"} =>
        /\ Len(rays) = 3 * Cardinality(Endpoints)
        /\ \A p \in Endpoints : \A k \in {-1, 0, 1} : Cardinality(RaysAt(p, k)) = 1
        /\ \A i \in 1 .. Len(rays) : <<rays[i].bx, rays[i].by>> \in Endpoints
        /\ DOMAIN edges = {} => rays = <<>>

\* Rays were cast over edges that share ends: fewer distinct ends than
\* twice the number of edges.
C15_Witness ==
    /\ pc = "clip"
    /\ Len(rays) > 0
    /\ Cardinality(Endpoints) < 2 * Cardinality(DOMAIN edges)

----------------------------------------------------------------------------
(* The order of the rays.                                                  *)

\* No ray of the list has a stored angle below that of a ray before it.
SortedByAngle ==
    \A i \in 1 .. Len(rays) : \A j \in 1 .. Len(rays) :
        i < j => ~angleLess(rays[j], rays[i])

\* The stored angle is the angle the ray was cast at: that of the end it
\* was aimed at, turned by k * eps, k in {-1, 0, 1}, which is the direction
\* from the light to its far-field point.
CastAngle(ray) ==
    /\ ray.k \in {-1, 0, 1}
    /\ ray.fx - ray.sx = EpsInv * DirX(ray.sx, ray.sy, ray.bx, ray.by)
                            - ray.k * DirY(ray.sx, ray.sy, ray.bx, ray.by)
    /\ ray.fy - ray.sy = EpsInv * DirY(ray.sx, ray.sy, ray.bx, ray.by)
                            + ray.k * DirX(ray.sx, ray.sy, ray.bx, ray.by)

SameAngle(a, b) == a.bx = b.bx /\ a.by = b.by /\ a.k = b.k /\ a.fx = b.fx /\ a.fy = b.fy

\* C16: when getRaysToEdges is through, the rays are in non-decreasing
\* order of their stored angle; the stored angle is the one the ray was cast
\* at (base - eps, base or base + eps), and no iteration of the clipping loop
\* changes it.
C16_SortedByAngle ==
    /\ [](pc = "sorted" => (SortedByAngle /\ \A i \in 1 .. Len(rays) : CastAngle(rays[i])))
    /\ [][(pc = "clip" /\ pc' = "clip") =>
             \A i \in 1 .. Len(rays) : SameAngle(rays'[i], rays[i])]_vars

\* The sort has changed the order in which the rays were cast, and some
\* ray was clipped.
C16_Witness ==
    /\ pc = "sorted"
    /\ rays # clipRays(castRays(lightSource, getAllEdges(edges), 0,
                                [rays |-> <<>>, visited |-> {}]),
                       getAllEdges(edges))
    /\ \E i \in 1 .. Len(rays) : rays[i].t # RatOne

----------------------------------------------------------------------------
(* Drags.                                                                  *)

\* A drag is in progress.
Dragging == isCreating \/ isRemoving

\* The step is a mousedown with a button other than the right one.
DragStart == \E p \in Pixels : \E button \in Buttons \ {2} : MouseDown(p[1], p[2], button)

\* The step is a mousedown with the right button.
RightDown == \E p \in Pixels : MouseDown(p[1], p[2], 2)

\* The step is a mousemove.
Move == \E p \in Pixels : MouseMove(p[1], p[2])

GridUnchanged == cells' = cells /\ edges' = edges /\ edgeId' = edgeId

\* Outside a drag a step that changes the grid is no mousemove; no drag
\* begins but by DragStart; RightDown changes neither the grid nor the drag.
DragStep ==
    /\ (~Dragging /\ ~GridUnchanged) => ~Move
    /\ (~DragStart /\ ~Dragging) => ~Dragging'
    /\ RightDown => (GridUnchanged /\ isCreating' = isCreating /\ isRemoving' = isRemoving)

\* C17: no drag is in progress at the start and after a mouseup, and none
\* begins but by a mousedown with a button other than the right one; a
\* mousemove outside a drag adds and removes no cell; a mousedown with the
\* right button changes neither the grid nor the drag.
C17_DragOnly ==
    /\ [](pc \in {"init", "mouseup"} => ~Dragging)
    /\ [][DragStep]_vars

\* A move outside a drag, after a drag that changed the grid and was ended.
C17_Witness ==
    /\ pc = "mousemove"
    /\ ~Dragging
    /\ edits >= 2
    /\ DOMAIN cells # BorderCoords

====
